---- MODULE Spec2Model ----
(***************************************************************************)
(* The media Repository of cephxdev/nero (repo/repo.go): an in-memory map   *)
(* of Media entities guarded by one sync.RWMutex, optionally backed by a    *)
(* storage root and a newline-delimited JSON index file.                    *)
(*                                                                          *)
(* The index file is modelled as a sequence of bytes.  A byte is a record   *)
(* [t, v, s]; one JSON record is the bytes                                  *)
(*     {  id  format  path  [meta ...]  }                                   *)
(* followed by a newline byte, so records differ in serialized length.      *)
(***************************************************************************)
EXTENDS Integers, Sequences, FiniteSets, TLC

(* ------------------------------ bounds -------------------------------- *)

NumProcs == 2
NumIDs == 3
NumFewIDs == 2
MaxIndexLen == 16
MaxFaults == 1
MaxLines == 3
MaxRestarts == 1

Procs == 1..NumProcs
IDs == 1..NumIDs
\* The IDs the processes of Spec and SpecDisk work with.
FewIDs == 1..NumFewIDs

(* ------------------------------ paths --------------------------------- *)

\* A path is a sequence of components; an absolute path starts with "/".
IsAbs(p) == Len(p) > 0 /\ p[1] = "/"

\* The repository's fields id, path and lockPath (path is made absolute by NewFile).
RepoID == "repo"
RootPath == <<"/", "r">>

RECURSIVE CommonPrefix(_, _)
CommonPrefix(a, b) ==
    IF a = <<>> \/ b = <<>> \/ Head(a) # Head(b) THEN 0
    ELSE 1 + CommonPrefix(Tail(a), Tail(b))

Dots(n) == [i \in 1..n |-> ".."]

\* filepath.Rel(base, targ): fails when exactly one of the two is absolute.
Rel(base, targ) ==
    IF IsAbs(base) # IsAbs(targ) THEN [err |-> TRUE, path |-> <<>>]
    ELSE LET k == CommonPrefix(base, targ)
             r == Dots(Len(base) - k) \o SubSeq(targ, k + 1, Len(targ))
         IN  [err |-> FALSE, path |-> IF r = <<>> THEN <<".">> ELSE r]

\* filepath.Clean on a component sequence: "." is dropped, ".." removes the
\* component before it (never the root).
RECURSIVE CleanFrom(_, _)
CleanFrom(done, rest) ==
    IF rest = <<>> THEN done
    ELSE LET c == Head(rest) IN
         IF c = "." THEN CleanFrom(done, Tail(rest))
         ELSE IF c = ".." /\ Len(done) > 0 /\ done[Len(done)] \notin {"/", ".."}
              THEN CleanFrom(SubSeq(done, 1, Len(done) - 1), Tail(rest))
         ELSE IF c = ".." /\ Len(done) > 0 /\ done[Len(done)] = "/"
              THEN CleanFrom(done, Tail(rest))
         ELSE CleanFrom(Append(done, c), Tail(rest))

\* filepath.Join(base, p)
Join(base, p) == CleanFrom(<<>>, base \o p)

\* The asset file Create writes for an entity: root/<id> (id.String()).
AssetName(id) == ToString(id)
InRoot(id) == Join(RootPath, <<AssetName(id)>>)
\* An asset file outside the storage root.
OutRoot(id) == <<"/", "o", AssetName(id)>>

(* --------------------------- Media entities --------------------------- *)

\* media.Format and the metadata variants (meta.Metadata; "nil" is no metadata).
Formats == {"Unknown", "Image", "AnimatedImage"}
Metas == {"nil", "Generic", "Anime"}

Media(id, format, path, meta) ==
    [id |-> id, format |-> format, path |-> path, meta |-> meta]

\* The value Get returns for an ID that is not in the map (a nil *media.Media).
NilMedia == Media(0, "Unknown", <<>>, "nil")

(* ------------------------- index serialization ------------------------ *)

Byte(t, v, s) == [t |-> t, v |-> v, s |-> s]
LBrace == Byte("{", 0, <<>>)
RBrace == Byte("}", 0, <<>>)
NL == Byte("nl", 0, <<>>)
\* A byte no record contains (a foreign or damaged file).
Junk == Byte("junk", 0, <<>>)

\* The "meta" member of a record: absent for no metadata, and of a length that
\* depends on the variant.
MetaBytes(meta) ==
    CASE meta = "nil" -> <<>>
      [] meta = "Anime" -> <<Byte("meta", 0, <<"Anime">>)>>
      [] meta = "Generic" -> <<Byte("meta", 0, <<"Generic">>), Byte("fields", 0, <<>>)>>

\* json.Marshal of a media.Media: one JSON object, no newline.
Marshal(m) ==
    <<LBrace, Byte("id", m.id, <<>>), Byte("format", 0, <<m.format>>),
      Byte("path", 0, m.path)>> \o MetaBytes(m.meta) \o <<RBrace>>

\* json.Unmarshal of one line into a media.Media: fails unless the line is one
\* whole object.
Unmarshal(line) ==
    LET n == Len(line)
        shaped == /\ n >= 5
                  /\ line[1] = LBrace
                  /\ line[2].t = "id"
                  /\ line[3].t = "format"
                  /\ line[4].t = "path"
                  /\ line[n] = RBrace
                  /\ \E mt \in Metas : MetaBytes(mt) = SubSeq(line, 5, n - 1)
    IN  IF shaped
        THEN [err |-> FALSE,
              m |-> Media(line[2].v, line[3].s[1], line[4].s,
                          CHOOSE mt \in Metas : MetaBytes(mt) = SubSeq(line, 5, n - 1))]
        ELSE [err |-> TRUE, m |-> NilMedia]

\* bufio.Scanner with the default ScanLines split: the lines between newline
\* bytes; a last line without a newline is returned, an empty last line is not.
RECURSIVE ScanLines(_, _)
ScanLines(cur, rest) ==
    IF rest = <<>> THEN (IF cur = <<>> THEN <<>> ELSE <<cur>>)
    ELSE IF Head(rest) = NL THEN <<cur>> \o ScanLines(<<>>, Tail(rest))
    ELSE ScanLines(Append(cur, Head(rest)), Tail(rest))

(* ------------------------------ files --------------------------------- *)

\* An open index file: its bytes and the write offset.
\* f.Write(b) at the offset: bytes there are overwritten, the file grows as needed.
FileWrite(f, b) ==
    [data |-> SubSeq(f.data, 1, f.off) \o b
              \o SubSeq(f.data, f.off + Len(b) + 1, Len(f.data)),
     off |-> f.off + Len(b)]

\* Repository.write: the record of m, its path made relative to the root when
\* filepath.Rel can express it, then a newline.
IndexRecord(root, m) ==
    LET rel == Rel(root, m.path)
    IN  Marshal(Media(m.id, m.format, IF rel.err THEN m.path ELSE rel.path, m.meta))

write(root, f, m) == FileWrite(f, IndexRecord(root, m) \o <<NL>>)

\* os.OpenFile(lockPath, O_WRONLY|O_APPEND|O_CREATE): every write goes to the end.
\* The file is created with permission bits 0: the process is taken to be able
\* to open it again all the same (a privileged user); an open that is refused is
\* one of the file faults of SpecDisk.
OpenAppend(file) == [data |-> file.data, off |-> Len(file.data)]

\* OpenWrite with the offset at the end of the file.
OpenWriteAtEnd(file) == [data |-> file.data, off |-> Len(file.data)]

\* os.OpenFile(lockPath, O_WRONLY|O_CREATE): the content is kept (no O_TRUNC), the
\* offset starts at 0.
OpenWrite(file) == [data |-> file.data, off |-> 0]

(* ------------------------------ NewFile ------------------------------- *)

EmptyMap == <<>>

\* AbsPath without the join to the root.
AbsPathAsWritten(m) == m.path

\* The path NewFile checks and stores for a decoded record: the record's path,
\* joined to the root when it is not absolute.
AbsPath(m) == IF IsAbs(m.path) THEN m.path ELSE Join(RootPath, m.path)

\* LoadRecord without the os.Stat of the asset file.
LoadRecordNoStat(loaded, m, fs) ==
    IF m.id \in DOMAIN loaded THEN loaded
    ELSE loaded @@ (m.id :> Media(m.id, m.format, AbsPath(m), m.meta))

\* LoadRecord without the test for an ID that is loaded already: the last record wins.
LoadRecordLastWins(loaded, m, fs) ==
    IF AbsPath(m) \notin fs THEN loaded
    ELSE (m.id :> Media(m.id, m.format, AbsPath(m), m.meta)) @@ loaded

\* One decoded record m against the map loaded so far and the files on disk fs:
\* a duplicate ID is skipped, a record whose file is missing is skipped, every
\* other record is stored under its ID with the absolute path.
LoadRecord(loaded, m, fs) ==
    IF m.id \in DOMAIN loaded THEN loaded
    ELSE IF AbsPath(m) \notin fs THEN loaded
    ELSE loaded @@ (m.id :> Media(m.id, m.format, AbsPath(m), m.meta))

\* What NewFile has so far: no error and the map, or the error it returns (and
\* then no repository).
Loaded(map) == [err |-> FALSE, nil |-> FALSE, items |-> map]
LoadFailed == [err |-> TRUE, nil |-> TRUE, items |-> EmptyMap]

\* LoadLine skipping a line that does not decode.
LoadLineSkipsCorrupt(acc, line, fs) ==
    IF acc.err \/ line = <<>> \/ Unmarshal(line).err THEN acc
    ELSE Loaded(LoadRecord(acc.items, Unmarshal(line).m, fs))

\* One line of the index file: an empty line is skipped, a line that does not
\* decode ends NewFile with an error, a decoded record goes through LoadRecord.
LoadLine(acc, line, fs) ==
    IF acc.err THEN acc
    ELSE IF line = <<>> THEN acc
    ELSE LET u == Unmarshal(line) IN
         IF u.err THEN LoadFailed
         ELSE Loaded(LoadRecord(acc.items, u.m, fs))

\* The scan loop of NewFile over the lines of the index file.
RECURSIVE LoadLines(_, _, _)
LoadLines(lines, acc, fs) ==
    IF lines = <<>> THEN acc
    ELSE LoadLines(Tail(lines), LoadLine(acc, Head(lines), fs), fs)

\* NewFile(id, path, lockPath, logger) on an index file [exists, data] and the
\* set fs of asset files that exist: an error and no repository, or the loaded
\* map (a nil map when there is no index file).  Opening, reading and closing
\* the index file are taken to work.
NewFile(file, fs) ==
    IF ~file.exists THEN [err |-> FALSE, nil |-> TRUE, items |-> EmptyMap]
    ELSE LoadLines(ScanLines(<<>>, file.data), Loaded(EmptyMap), fs)

(* ------------------------------- state -------------------------------- *)

VARIABLES
    r,          \* the Repository's fields: [id, path, lockPath]
    built,      \* "no": not constructed, "ok": a Repository exists, "failed": NewFile returned an error
    itemsNil,   \* r.items == nil
    items,      \* r.items: ID -> Media
    mu,         \* r.mu: [writer: the process holding Lock or 0, readers: processes holding RLock]
    lockFile,   \* the index file at r.lockPath: [exists, data]
    files,      \* the asset files that exist on disk
    pc,         \* each process's position
    arg,        \* each process's call arguments
    ret,        \* the return of the step just taken: NoRet, or who returned what
    faults,     \* I/O failures so far
    restarts,   \* repositories constructed on this storage after the first
    used,       \* IDs seen so far (uuid.New never returns one of them)
    removed,    \* a Remove has run on this storage
    live,       \* ID -> the entity a successful Add stored, or NewFile loaded, and no Remove has been called for
    gone        \* IDs whose Remove has returned and no Add has been called for since

vars == <<r, built, itemsNil, items, mu, lockFile, files, pc, arg, ret, faults,
          restarts, used, removed, live, gone>>

Values(map) == {map[k] : k \in DOMAIN map}

NoErr == [kind |-> "nil", id |-> 0, repo |-> ""]
ErrDuplicateID(id, repo) == [kind |-> "DuplicateID", id |-> id, repo |-> repo]
ErrIO(what) == [kind |-> what, id |-> 0, repo |-> ""]
ErrUnsupported == [kind |-> "Unsupported", id |-> 0, repo |-> ""]

\* A call's arguments: the ID, entity or count it is given, the MIME type Create
\* detected, and the method called.
NoArg == [id |-> 0, m |-> NilMedia, n |-> 0, mime |-> "", via |-> ""]
\* A return: the process, the operation with its arguments, and what it returned.
NoRet == [proc |-> 0, op |-> "", id |-> 0, n |-> 0, mime |-> "", val |-> NilMedia,
          list |-> <<>>, err |-> NoErr]
Ret(p, op, a, val, list, err) ==
    [proc |-> p, op |-> op, id |-> a.id, n |-> a.n, mime |-> a.mime, val |-> val,
     list |-> list, err |-> err]

Unlocked == [writer |-> 0, readers |-> {}]
NoFile == [exists |-> FALSE, data |-> <<>>]

(* --------------------------- save, saveSingle ------------------------- *)

IOKinds == {"ok", "open", "write", "close"}

\* saveSingle without the test for a repository that has no index path.
saveSingleAnyRepository(repo, file, m, io, k) ==
    [file |-> [exists |-> TRUE, data |-> write(repo.path, OpenAppend(file), m).data],
     err |-> NoErr]

\* Repository.saveSingle(m) on the index file, with the outcome io of its file
\* operations: "open" fails before anything is written, "write" fails after k
\* bytes of the record, "close" fails after the record is written.
saveSingle(repo, file, m, io, k) ==
    IF repo.lockPath = "" THEN [file |-> file, err |-> NoErr]
    ELSE IF io = "open" THEN [file |-> file, err |-> ErrIO("open index file")]
    ELSE LET f == OpenAppend(file)
             whole == write(repo.path, f, m).data
             part == FileWrite(f, SubSeq(IndexRecord(repo.path, m) \o <<NL>>, 1, k)).data
         IN  CASE io = "ok" -> [file |-> [exists |-> TRUE, data |-> whole], err |-> NoErr]
               [] io = "write" -> [file |-> [exists |-> TRUE, data |-> part],
                                   err |-> ErrIO("write index item")]
               [] io = "close" -> [file |-> [exists |-> TRUE, data |-> whole],
                                   err |-> ErrIO("close index file")]

\* The loop of save: one write per entity, in the order the map enumerates them.
RECURSIVE WriteAll(_, _, _)
WriteAll(root, f, order) ==
    IF order = <<>> THEN f
    ELSE WriteAll(root, write(root, f, Head(order)), Tail(order))

\* Repository.save() with the map enumerated in the given order.  A "write"
\* failure stops the loop at the j-th entity of the order, after k of its bytes.
save(repo, file, order, io, j, k) ==
    IF repo.lockPath = "" THEN [file |-> file, err |-> NoErr]
    ELSE IF io = "open" THEN [file |-> file, err |-> ErrIO("open index file")]
    ELSE LET f == OpenWrite(file)
             whole == WriteAll(repo.path, f, order).data
             before == WriteAll(repo.path, f, SubSeq(order, 1, j - 1))
             part == FileWrite(before,
                         SubSeq(IndexRecord(repo.path, order[j]) \o <<NL>>, 1, k)).data
         IN  CASE io = "ok" -> [file |-> [exists |-> TRUE, data |-> whole], err |-> NoErr]
               [] io = "write" -> [file |-> [exists |-> TRUE, data |-> part],
                                   err |-> ErrIO("write index item")]
               [] io = "close" -> [file |-> [exists |-> TRUE, data |-> whole],
                                   err |-> ErrIO("close index file")]

\* The orders in which a set can be enumerated (Go's map iteration order).
Orderings(S) ==
    {o \in [1..Cardinality(S) -> S] : \A i, j \in 1..Cardinality(S) : o[i] = o[j] => i = j}

RecordLen(root, m) == Len(IndexRecord(root, m)) + 1

(* ------------------------------ inputs -------------------------------- *)

\* The entities callers pass to Add: for every ID one entity with its asset in
\* the storage root and no metadata, and one with its asset outside the root
\* and Generic metadata (a longer index record).
AddInputs(ids) ==
    {Media(i, "Image", InRoot(i), "nil") : i \in ids}
        \cup {Media(i, "AnimatedImage", OutRoot(i), "Generic") : i \in ids}

\* mimetype.Detect on the byte contents callers pass to Create.
Contents == {"jpeg", "png", "apng", "gif", "webp", "text"}
Detect(b) ==
    CASE b = "jpeg" -> "image/jpeg"
      [] b = "png" -> "image/png"
      [] b = "apng" -> "image/vnd.mozilla.apng"
      [] b = "gif" -> "image/gif"
      [] b = "webp" -> "image/webp"
      [] OTHER -> "text/plain"

\* Classify taking every image type for a still image.
ClassifyStill(mime) ==
    IF mime \in {"image/jpeg", "image/png", "image/vnd.mozilla.apng", "image/gif",
                 "image/webp"}
    THEN "Image"
    ELSE "Unknown"

\* The format Create gives an entity from its MIME type.
Classify(mime) ==
    IF mime \in {"image/jpeg", "image/png"} THEN "Image"
    ELSE IF mime \in {"image/vnd.mozilla.apng", "image/gif", "image/webp"}
         THEN "AnimatedImage"
    ELSE "Unknown"

\* The (bytes, metadata) pairs callers pass to Create.
CreateInputs == {<<"jpeg", "nil">>, <<"gif", "Anime">>}

\* The arguments callers pass to Random.
RandomInputs == (0 - 1)..(NumFewIDs + 1)

(* ------------------------------- Init --------------------------------- *)

\* A file-backed repository constructed by NewFile on a storage root without
\* an index file; the assets outside the root exist already.
Init ==
    /\ r = [id |-> RepoID, path |-> RootPath, lockPath |-> "index"]
    /\ built = "ok"
    /\ itemsNil = TRUE
    /\ items = EmptyMap
    /\ mu = Unlocked
    /\ lockFile = NoFile
    /\ files = {OutRoot(i) : i \in IDs}
    /\ pc = [p \in Procs |-> "idle"]
    /\ arg = [p \in Procs |-> NoArg]
    /\ ret = NoRet
    /\ faults = 0
    /\ restarts = 0
    /\ used = {}
    /\ removed = FALSE
    /\ live = [i \in IDs |-> NilMedia]
    /\ gone = {}

\* A step can be taken: a Repository exists and the last return has been taken
\* by its caller.
Ready == built = "ok" /\ ret = NoRet

\* The caller takes the value the last step returned.
Resume ==
    /\ ret # NoRet
    /\ ret' = NoRet
    /\ UNCHANGED <<r, built, itemsNil, items, mu, lockFile, files, pc, arg, faults,
                   restarts, used, removed, live, gone>>

\* A call returns: the process is idle again and holds the result.
Return(p, res) ==
    /\ pc' = [pc EXCEPT ![p] = "idle"]
    /\ arg' = [arg EXCEPT ![p] = NoArg]
    /\ ret' = res

\* n file operations fail in this step, within the fault budget.
Fault(n) ==
    /\ faults + n <= MaxFaults
    /\ faults' = faults + n

Failed(io) == IF io = "ok" THEN 0 ELSE 1

(* -------------------------------- Add --------------------------------- *)

\* A caller calls Add(m); cap bounds the index file's length.  The call waits
\* for the lock.  The ID is not one a Create in progress has drawn with
\* uuid.New: no caller knows that before Create returns.
CallAdd(p, m, cap) ==
    /\ Ready
    /\ pc[p] = "idle"
    /\ \A q \in Procs : arg[q].via = "Create" => arg[q].id # m.id
    /\ Len(lockFile.data) + RecordLen(r.path, m) <= cap
    /\ pc' = [pc EXCEPT ![p] = "Add_called"]
    /\ arg' = [arg EXCEPT ![p] = [id |-> m.id, m |-> m, n |-> 0, mime |-> "", via |-> "Add"]]
    /\ ret' = NoRet
    /\ used' = used \cup {m.id}
    /\ UNCHANGED <<r, built, itemsNil, items, mu, lockFile, files, faults, restarts,
                   removed, live, gone>>

\* Lock that does not wait.
LockNoWait(p) == mu' = [mu EXCEPT !.writer = p]

\* r.mu.Lock()
Lock(p) ==
    /\ mu = Unlocked
    /\ mu' = [mu EXCEPT !.writer = p]

\* The deferred r.mu.Unlock()
Unlock(p) == mu' = [mu EXCEPT !.writer = 0]

\* Add, r.mu.Lock(): in a call by a caller, or in the call Create makes with the
\* entity it built.
AddLock(p) ==
    /\ Ready
    /\ pc[p] \in {"Add_called", "Create_add"}
    /\ Lock(p)
    /\ pc' = [pc EXCEPT ![p] = "Add_locked"]
    /\ ret' = NoRet
    /\ gone' = gone \ {arg[p].id}
    /\ UNCHANGED <<r, built, itemsNil, items, lockFile, files, arg, faults, restarts,
                   used, removed, live>>

\* AddReturn giving Create's caller the error without the entity.
AddReturnErrorOnly(p, err, closed) ==
    IF arg[p].via = "Create"
    THEN Return(p, Ret(p, "Create", arg[p],
                       IF err = NoErr THEN arg[p].m ELSE NilMedia, <<>>, err))
    ELSE closed /\ Return(p, Ret(p, "Add", arg[p], arg[p].m, <<>>, err))

\* What Add's caller gets: Add's error, and from Create the entity with it.  The
\* deferred close of Create's asset file runs now; closed tells whether it works.
AddReturn(p, err, closed) ==
    IF arg[p].via = "Create"
    THEN Return(p, Ret(p, "Create", arg[p], arg[p].m, <<>>, err))
    ELSE closed /\ Return(p, Ret(p, "Add", arg[p], arg[p].m, <<>>, err))

\* AddTest without the test for a duplicate ID.
AddTestNoDuplicate(p, closed) ==
    /\ Ready
    /\ pc[p] = "Add_locked"
    /\ closed
    /\ pc' = [pc EXCEPT ![p] = IF itemsNil THEN "Add_make" ELSE "Add_put"]
    /\ ret' = NoRet
    /\ UNCHANGED <<r, built, itemsNil, items, mu, lockFile, files, arg, faults,
                   restarts, used, removed, live, gone>>

\* Add, under the lock: if r.items == nil ... else if _, ok := r.items[m.ID]; ok:
\* the map is to be made, or a duplicate ID is refused, or the entity can go in.
AddTest(p, closed) ==
    /\ Ready
    /\ pc[p] = "Add_locked"
    /\ IF itemsNil
       THEN /\ closed
            /\ pc' = [pc EXCEPT ![p] = "Add_make"]
            /\ ret' = NoRet
            /\ UNCHANGED <<mu, arg, faults>>
       ELSE IF arg[p].id \in DOMAIN items
       THEN /\ AddReturn(p, ErrDuplicateID(arg[p].id, r.id), closed)
            /\ Fault(IF closed THEN 0 ELSE 1)
            /\ Unlock(p)
       ELSE /\ closed
            /\ pc' = [pc EXCEPT ![p] = "Add_put"]
            /\ ret' = NoRet
            /\ UNCHANGED <<mu, arg, faults>>
    /\ UNCHANGED <<r, built, itemsNil, items, lockFile, files, restarts, used,
                   removed, live, gone>>

\* r.items = make(map[uuid.UUID]*media.Media, 1)
AddMake(p) ==
    /\ Ready
    /\ pc[p] = "Add_make"
    /\ itemsNil' = FALSE
    /\ items' = EmptyMap
    /\ pc' = [pc EXCEPT ![p] = "Add_put"]
    /\ ret' = NoRet
    /\ UNCHANGED <<r, built, mu, lockFile, files, arg, faults, restarts, used,
                   removed, live, gone>>

\* r.items[m.ID] = m
AddPut(p) ==
    /\ Ready
    /\ pc[p] = "Add_put"
    /\ items' = (arg[p].id :> arg[p].m) @@ items
    /\ pc' = [pc EXCEPT ![p] = "Add_inserted"]
    /\ ret' = NoRet
    /\ UNCHANGED <<r, built, itemsNil, mu, lockFile, files, arg, faults, restarts,
                   used, removed, live, gone>>

\* AddSaveSingle taking the entity out of the map again when the append fails.
AddSaveSingleRollsBack(p, io, k, closed) ==
    /\ Ready
    /\ pc[p] = "Add_inserted"
    /\ k < RecordLen(r.path, arg[p].m)
    /\ io # "write" => k = 0
    /\ LET res == saveSingle(r, lockFile, arg[p].m, io, k) IN
          /\ Fault(Failed(io) + (IF closed THEN 0 ELSE 1))
          /\ lockFile' = res.file
          /\ AddReturn(p, res.err, closed)
          /\ live' = IF res.err = NoErr THEN [live EXCEPT ![arg[p].id] = arg[p].m]
                     ELSE live
          /\ items' = IF res.err = NoErr THEN items
                      ELSE [i \in DOMAIN items \ {arg[p].id} |-> items[i]]
    /\ Unlock(p)
    /\ UNCHANGED <<r, built, itemsNil, files, restarts, used, removed, gone>>

\* Add: return r.saveSingle(m), then the deferred r.mu.Unlock().  io is the
\* outcome of the index file operations, k the bytes a failing write wrote.
AddSaveSingle(p, io, k, closed) ==
    /\ Ready
    /\ pc[p] = "Add_inserted"
    /\ k < RecordLen(r.path, arg[p].m)
    /\ io # "write" => k = 0
    /\ LET res == saveSingle(r, lockFile, arg[p].m, io, k) IN
          /\ Fault(Failed(io) + (IF closed THEN 0 ELSE 1))
          /\ lockFile' = res.file
          /\ AddReturn(p, res.err, closed)
          /\ live' = IF res.err = NoErr THEN [live EXCEPT ![arg[p].id] = arg[p].m]
                     ELSE live
    /\ Unlock(p)
    /\ UNCHANGED <<r, built, itemsNil, items, files, restarts, used, removed, gone>>

(* ------------------------------- Remove ------------------------------- *)

\* Remove(id), r.mu.Lock().
RemoveLock(p, id) ==
    /\ Ready
    /\ pc[p] = "idle"
    /\ Lock(p)
    /\ pc' = [pc EXCEPT ![p] = "Remove_locked"]
    /\ arg' = [arg EXCEPT ![p] = [id |-> id, m |-> NilMedia, n |-> 0, mime |-> "", via |-> "Remove"]]
    /\ ret' = NoRet
    /\ live' = [live EXCEPT ![id] = NilMedia]
    /\ removed' = TRUE
    /\ UNCHANGED <<r, built, itemsNil, items, lockFile, files, faults, restarts,
                   used, gone>>

\* RemoveDelete with the delete left out.
RemoveDeleteNothing(p) ==
    /\ Ready
    /\ pc[p] = "Remove_locked"
    /\ pc' = [pc EXCEPT ![p] = "Remove_deleted"]
    /\ ret' = NoRet
    /\ UNCHANGED <<r, built, itemsNil, items, mu, lockFile, files, arg, faults,
                   restarts, used, removed, live, gone>>

\* delete(r.items, id): nothing happens for an absent ID or a nil map.
RemoveDelete(p) ==
    /\ Ready
    /\ pc[p] = "Remove_locked"
    /\ items' = [i \in DOMAIN items \ {arg[p].id} |-> items[i]]
    /\ pc' = [pc EXCEPT ![p] = "Remove_deleted"]
    /\ ret' = NoRet
    /\ UNCHANGED <<r, built, itemsNil, mu, lockFile, files, arg, faults,
                   restarts, used, removed, live, gone>>

\* Remove: return r.save(), then the deferred r.mu.Unlock().  io is the outcome
\* of the index file operations; a failing write is the j-th and wrote k bytes.
RemoveSave(p, io, j, k) ==
    /\ Ready
    /\ pc[p] = "Remove_deleted"
    /\ \E order \in Orderings(Values(items)) :
          LET res == save(r, lockFile, order, io, j, k) IN
          /\ IF io = "write" THEN j <= Len(order) /\ k < RecordLen(r.path, order[j])
                             ELSE j = 1 /\ k = 0
          /\ Fault(Failed(io))
          /\ lockFile' = res.file
          /\ Return(p, Ret(p, "Remove", arg[p], NilMedia, <<>>, res.err))
    /\ Unlock(p)
    /\ gone' = gone \cup {arg[p].id}
    /\ UNCHANGED <<r, built, itemsNil, items, files, restarts, used, removed, live>>

(* ------------------------- Get, Items, Random ------------------------- *)

\* RLock that does not wait for a writer.
RLockNoWait(p) == mu' = [mu EXCEPT !.readers = @ \cup {p}]

\* r.mu.RLock(), r.mu.RUnlock()
RLock(p) ==
    /\ mu.writer = 0
    /\ mu' = [mu EXCEPT !.readers = @ \cup {p}]

RUnlock(p) == mu' = [mu EXCEPT !.readers = @ \ {p}]

\* Get(id), r.mu.RLock().
GetRLock(p, id) ==
    /\ Ready
    /\ pc[p] = "idle"
    /\ RLock(p)
    /\ pc' = [pc EXCEPT ![p] = "Get_rlocked"]
    /\ arg' = [arg EXCEPT ![p] = [id |-> id, m |-> NilMedia, n |-> 0, mime |-> "", via |-> "Get"]]
    /\ ret' = NoRet
    /\ UNCHANGED <<r, built, itemsNil, items, lockFile, files, faults, restarts,
                   used, removed, live, gone>>

\* What Get reads: nil for a nil map or an absent ID, else the stored entity.
Get(id) ==
    IF itemsNil THEN NilMedia
    ELSE IF id \in DOMAIN items THEN items[id] ELSE NilMedia

\* Get: the read, then the deferred r.mu.RUnlock().
GetReturn(p) ==
    /\ Ready
    /\ pc[p] = "Get_rlocked"
    /\ Return(p, Ret(p, "Get", arg[p], Get(arg[p].id), <<>>, NoErr))
    /\ RUnlock(p)
    /\ UNCHANGED <<r, built, itemsNil, items, lockFile, files, faults, restarts,
                   used, removed, live, gone>>

\* Items(), r.mu.RLock().
ItemsRLock(p) ==
    /\ Ready
    /\ pc[p] = "idle"
    /\ RLock(p)
    /\ pc' = [pc EXCEPT ![p] = "Items_rlocked"]
    /\ arg' = [arg EXCEPT ![p] = [id |-> 0, m |-> NilMedia, n |-> 0, mime |-> "", via |-> "Items"]]
    /\ ret' = NoRet
    /\ UNCHANGED <<r, built, itemsNil, items, lockFile, files, faults, restarts,
                   used, removed, live, gone>>

\* maps.Values(r.items): the entities in the order the map enumerates them.
Items == Orderings(Values(items))

\* Items: the read, then the deferred r.mu.RUnlock().
ItemsReturn(p) ==
    /\ Ready
    /\ pc[p] = "Items_rlocked"
    /\ \E v \in Items : Return(p, Ret(p, "Items", arg[p], NilMedia, v, NoErr))
    /\ RUnlock(p)
    /\ UNCHANGED <<r, built, itemsNil, items, lockFile, files, faults, restarts,
                   used, removed, live, gone>>

\* Random(n) with n <= 0: nil, without a lock.
RandomNone(p, n) ==
    /\ Ready
    /\ pc[p] = "idle"
    /\ n <= 0
    /\ Return(p, Ret(p, "Random", [NoArg EXCEPT !.n = n], NilMedia, <<>>, NoErr))
    /\ UNCHANGED <<r, built, itemsNil, items, mu, lockFile, files, faults, restarts,
                   used, removed, live, gone>>

\* Random(n) with n > 0: v := r.Items(), which takes r.mu.RLock().
RandomRLock(p, n) ==
    /\ Ready
    /\ pc[p] = "idle"
    /\ n > 0
    /\ RLock(p)
    /\ pc' = [pc EXCEPT ![p] = "Random_rlocked"]
    /\ arg' = [arg EXCEPT ![p] = [id |-> 0, m |-> NilMedia, n |-> n, mime |-> "", via |-> "Random"]]
    /\ ret' = NoRet
    /\ UNCHANGED <<r, built, itemsNil, items, lockFile, files, faults, restarts,
                   used, removed, live, gone>>

\* rand.Shuffle(len(v), swap): v rearranged by a permutation of its indices.
ShufflePerms(n) == {f \in [1..n -> 1..n] : \A i, j \in 1..n : f[i] = f[j] => i = j}
Shuffle(v, perm) == [i \in 1..Len(v) |-> v[perm[i]]]

\* Truncate without the cut.
TruncateNothing(v, n) == v

\* if len(v) > n { v = v[:n] }
Truncate(v, n) == IF Len(v) > n THEN SubSeq(v, 1, n) ELSE v

\* Random: Items returns and unlocks, the slice is shuffled and cut to n.
RandomReturn(p) ==
    /\ Ready
    /\ pc[p] = "Random_rlocked"
    /\ \E v \in Items :
          \E perm \in ShufflePerms(Len(v)) :
             Return(p, Ret(p, "Random", arg[p], NilMedia, Truncate(Shuffle(v, perm), arg[p].n), NoErr))
    /\ RUnlock(p)
    /\ UNCHANGED <<r, built, itemsNil, items, lockFile, files, faults, restarts,
                   used, removed, live, gone>>

(* ------------------------------- Create ------------------------------- *)

\* Create(b, m) up to the open of the asset file: a memory-only repository
\* refuses; else a fresh ID (id, which nothing has used before), the MIME type
\* of the bytes, and the asset file root/<id> opened, which creates it.  The
\* lock is not taken.
Create(p, id, b, mt, io, cap) ==
    /\ Ready
    /\ pc[p] = "idle"
    /\ IF r.path = <<>>
       THEN /\ Return(p, Ret(p, "Create", arg[p], NilMedia, <<>>, ErrUnsupported))
            /\ UNCHANGED <<files, faults, used>>
       ELSE    LET path == Join(r.path, <<AssetName(id)>>)
                   m0 == Media(id, Classify(Detect(b)), path, mt)
               IN  /\ id \notin used
                   /\ io \in {"ok", "open"}
                   /\ Len(lockFile.data) + RecordLen(r.path, m0) <= cap
                   /\ Fault(Failed(io))
                   /\ used' = used \cup {id}
                   /\ IF io = "ok"
                      THEN /\ files' = files \cup {path}
                           /\ pc' = [pc EXCEPT ![p] = "Create_opened"]
                           /\ arg' = [arg EXCEPT ![p] =
                                        [id |-> id, m |-> m0, n |-> 0, mime |-> Detect(b),
                                         via |-> "Create"]]
                           /\ ret' = NoRet
                      ELSE /\ files' = files
                           /\ Return(p, Ret(p, "Create",
                                            [NoArg EXCEPT !.id = id, !.mime = Detect(b)],
                                            NilMedia, <<>>, ErrIO("open file")))
    /\ UNCHANGED <<r, built, itemsNil, items, mu, lockFile, restarts, removed, live, gone>>

\* CreateWrite writing the asset file under the lock.
CreateWriteLocked(p, io) ==
    /\ Ready
    /\ pc[p] = "Create_opened"
    /\ io \in {"ok", "write"}
    /\ Fault(Failed(io))
    /\ Lock(p)
    /\ IF io = "ok"
       THEN /\ pc' = [pc EXCEPT ![p] = "Create_add"]
            /\ ret' = NoRet
            /\ arg' = arg
       ELSE Return(p, Ret(p, "Create", arg[p], NilMedia, <<>>, ErrIO("write file")))
    /\ UNCHANGED <<r, built, itemsNil, items, lockFile, files, restarts, used,
                   removed, live, gone>>

\* Create: f.Write(b), still without the lock; then the entity is built and
\* Add is called with it.  A failing write returns no entity.
CreateWrite(p, io) ==
    /\ Ready
    /\ pc[p] = "Create_opened"
    /\ io \in {"ok", "write"}
    /\ Fault(Failed(io))
    /\ IF io = "ok"
       THEN /\ pc' = [pc EXCEPT ![p] = "Create_add"]
            /\ ret' = NoRet
            /\ arg' = arg
       ELSE Return(p, Ret(p, "Create", arg[p], NilMedia, <<>>, ErrIO("write file")))
    /\ UNCHANGED <<r, built, itemsNil, items, mu, lockFile, files, restarts, used,
                   removed, live, gone>>

(* ------------------------------ restart ------------------------------- *)

\* The process ends and a new one constructs the repository again with NewFile
\* on the same root and index file.
\* NewFile runs on the index file and the asset files as they are.
Constructed ==
    LET res == NewFile(lockFile, files) IN
       /\ built' = IF res.err THEN "failed" ELSE "ok"
       /\ itemsNil' = res.nil
       /\ items' = res.items

Restart ==
    /\ Ready
    /\ restarts < MaxRestarts
    /\ \A p \in Procs : pc[p] = "idle"
    /\ Constructed
    /\ restarts' = restarts + 1
    /\ ret' = NoRet
    /\ live' = [i \in IDs |-> IF i \in DOMAIN items' THEN items'[i] ELSE NilMedia]
    /\ gone' = {}
    /\ UNCHANGED <<r, mu, lockFile, files, pc, arg, faults, used, removed>>

\* Processes running every operation in parallel on a healthy disk: no file
\* operation fails.
Next ==
    \/ \E p \in Procs, m \in AddInputs(FewIDs) : CallAdd(p, m, MaxIndexLen)
    \/ \E p \in Procs : AddLock(p)
    \/ \E p \in Procs : AddTest(p, TRUE)
    \/ \E p \in Procs : AddMake(p)
    \/ \E p \in Procs : AddPut(p)
    \/ \E p \in Procs : AddSaveSingle(p, "ok", 0, TRUE)
    \/ \E p \in Procs, id \in FewIDs : RemoveLock(p, id)
    \/ \E p \in Procs : RemoveDelete(p)
    \/ \E p \in Procs : RemoveSave(p, "ok", 1, 0)
    \/ \E p \in Procs, id \in FewIDs : GetRLock(p, id)
    \/ \E p \in Procs : GetReturn(p)
    \/ \E p \in Procs : ItemsRLock(p)
    \/ \E p \in Procs : ItemsReturn(p)
    \/ \E p \in Procs, n \in RandomInputs : RandomNone(p, n)
    \/ \E p \in Procs, n \in RandomInputs : RandomRLock(p, n)
    \/ \E p \in Procs : RandomReturn(p)
    \/ \E p \in Procs, id \in FewIDs, in \in CreateInputs :
          Create(p, id, in[1], in[2], "ok", MaxIndexLen)
    \/ \E p \in Procs : CreateWrite(p, "ok")
    \/ Resume

Spec == Init /\ [][Next]_vars

\* One process changing the repository on a disk whose file operations may
\* fail, and restarts of the program on the same storage.
DiskProcs == {1}

NextDisk ==
    \/ \E p \in DiskProcs, m \in AddInputs(FewIDs) : CallAdd(p, m, MaxIndexLen)
    \/ \E p \in DiskProcs : AddLock(p)
    \/ \E p \in DiskProcs, closed \in BOOLEAN : AddTest(p, closed)
    \/ \E p \in DiskProcs : AddMake(p)
    \/ \E p \in DiskProcs : AddPut(p)
    \/ \E p \in DiskProcs, io \in IOKinds, k \in 0..MaxIndexLen, closed \in BOOLEAN :
          AddSaveSingle(p, io, k, closed)
    \/ \E p \in DiskProcs, id \in FewIDs : RemoveLock(p, id)
    \/ \E p \in DiskProcs : RemoveDelete(p)
    \/ \E p \in DiskProcs, io \in IOKinds, j \in 1..NumFewIDs, k \in 0..MaxIndexLen :
          RemoveSave(p, io, j, k)
    \/ \E p \in DiskProcs, id \in FewIDs, in \in CreateInputs, io \in IOKinds :
          Create(p, id, in[1], in[2], io, MaxIndexLen)
    \/ \E p \in DiskProcs, io \in IOKinds : CreateWrite(p, io)
    \/ Restart
    \/ Resume

SpecDisk == Init /\ [][NextDisk]_vars

(* --------------------------- memory-backed ---------------------------- *)

\* A memory-backed repository, as NewMemory returns it: no root, no index path,
\* a nil map.  The disk is as for Init.
InitMemory ==
    /\ r = [id |-> RepoID, path |-> <<>>, lockPath |-> ""]
    /\ built = "ok"
    /\ itemsNil = TRUE
    /\ items = EmptyMap
    /\ mu = Unlocked
    /\ lockFile = NoFile
    /\ files = {OutRoot(i) : i \in IDs}
    /\ pc = [p \in Procs |-> "idle"]
    /\ arg = [p \in Procs |-> NoArg]
    /\ ret = NoRet
    /\ faults = 0
    /\ restarts = 0
    /\ used = {}
    /\ removed = FALSE
    /\ live = [i \in IDs |-> NilMedia]
    /\ gone = {}

\* Processes running the operations in parallel on the memory-backed
\* repository.
NextMemory ==
    \/ \E p \in Procs, m \in AddInputs(FewIDs) : CallAdd(p, m, MaxIndexLen)
    \/ \E p \in Procs : AddLock(p)
    \/ \E p \in Procs : AddTest(p, TRUE)
    \/ \E p \in Procs : AddMake(p)
    \/ \E p \in Procs : AddPut(p)
    \/ \E p \in Procs : AddSaveSingle(p, "ok", 0, TRUE)
    \/ \E p \in Procs, id \in FewIDs : RemoveLock(p, id)
    \/ \E p \in Procs : RemoveDelete(p)
    \/ \E p \in Procs : RemoveSave(p, "ok", 1, 0)
    \/ \E p \in Procs, id \in FewIDs : GetRLock(p, id)
    \/ \E p \in Procs : GetReturn(p)
    \/ \E p \in Procs : ItemsRLock(p)
    \/ \E p \in Procs : ItemsReturn(p)
    \/ \E p \in Procs, id \in FewIDs, in \in CreateInputs :
          Create(p, id, in[1], in[2], "ok", MaxIndexLen)
    \/ Resume

SpecMemory == InitMemory /\ [][NextMemory]_vars

(* ------------------------ Create of any content ----------------------- *)

\* One process on a healthy disk creating entities from every kind of content,
\* with and without metadata, and adding, removing and reading entities.
NextCreate ==
    \/ \E p \in DiskProcs, m \in AddInputs(FewIDs) : CallAdd(p, m, MaxIndexLen)
    \/ \E p \in DiskProcs : AddLock(p)
    \/ \E p \in DiskProcs : AddTest(p, TRUE)
    \/ \E p \in DiskProcs : AddMake(p)
    \/ \E p \in DiskProcs : AddPut(p)
    \/ \E p \in DiskProcs : AddSaveSingle(p, "ok", 0, TRUE)
    \/ \E p \in DiskProcs, id \in FewIDs : RemoveLock(p, id)
    \/ \E p \in DiskProcs : RemoveDelete(p)
    \/ \E p \in DiskProcs : RemoveSave(p, "ok", 1, 0)
    \/ \E p \in DiskProcs, id \in FewIDs : GetRLock(p, id)
    \/ \E p \in DiskProcs : GetReturn(p)
    \/ \E p \in DiskProcs, id \in FewIDs, b \in Contents, mt \in Metas :
          Create(p, id, b, mt, "ok", MaxIndexLen)
    \/ \E p \in DiskProcs : CreateWrite(p, "ok")
    \/ Resume

SpecCreate == Init /\ [][NextCreate]_vars

(* ------------------------- add, then reload --------------------------- *)

\* An asset file is deleted from the disk by someone else.
AssetDeleted(path) ==
    /\ Ready
    /\ path \in files
    /\ files' = files \ {path}
    /\ UNCHANGED <<r, built, itemsNil, items, mu, lockFile, pc, arg, ret, faults,
                   restarts, used, removed, live, gone>>

AllAssets == {InRoot(i) : i \in IDs} \cup {OutRoot(i) : i \in IDs}

\* The longest index record, with its newline.
LongestRecord == RecordLen(RootPath, Media(0, "Unknown", <<>>, "Generic"))

\* One process adding and creating entities of every ID on a healthy disk, asset
\* files disappearing, and a restart of the program on the same storage.
NextReload ==
    \/ \E p \in DiskProcs, m \in AddInputs(IDs) : CallAdd(p, m, NumIDs * LongestRecord)
    \/ \E p \in DiskProcs : AddLock(p)
    \/ \E p \in DiskProcs : AddTest(p, TRUE)
    \/ \E p \in DiskProcs : AddMake(p)
    \/ \E p \in DiskProcs : AddPut(p)
    \/ \E p \in DiskProcs : AddSaveSingle(p, "ok", 0, TRUE)
    \/ \E p \in DiskProcs, id \in IDs, in \in CreateInputs :
          Create(p, id, in[1], in[2], "ok", NumIDs * LongestRecord)
    \/ \E p \in DiskProcs : CreateWrite(p, "ok")
    \/ \E path \in AllAssets : AssetDeleted(path)
    \/ Restart
    \/ Resume

SpecReload == Init /\ [][NextReload]_vars

(* --------------------- construction on any index ---------------------- *)

\* The lines of the index files NewFile is given: records of entities with
\* relative and with absolute paths (two of them with the same ID), a blank
\* line, a line that is no JSON, and a record that lost its first byte.
LoadLineSet ==
    {IndexRecord(RootPath, m) : m \in AddInputs(FewIDs)}
        \cup {Marshal(Media(NumIDs, "Unknown", InRoot(NumIDs), "Anime")),
              <<>>, <<Junk>>,
              Tail(IndexRecord(RootPath, Media(NumIDs, "Image", InRoot(NumIDs), "nil")))}

RECURSIVE JoinLines(_)
JoinLines(lines) ==
    IF lines = <<>> THEN <<>>
    ELSE Head(lines) \o <<NL>> \o JoinLines(Tail(lines))

\* The index files: up to MaxLines lines, the last one with or without its newline.
LoadFiles ==
    {NoFile} \cup
    {[exists |-> TRUE, data |-> SubSeq(JoinLines(ls), 1, Len(JoinLines(ls)) - cut)] :
        ls \in UNION {[1..n -> LoadLineSet] : n \in 0..MaxLines}, cut \in {0, 1}}

\* Before construction: any of these index files, any of the asset files.
InitLoad ==
    /\ r = [id |-> RepoID, path |-> RootPath, lockPath |-> "index"]
    /\ built = "no"
    /\ itemsNil = TRUE
    /\ items = EmptyMap
    /\ mu = Unlocked
    /\ lockFile \in LoadFiles
    /\ files \in SUBSET AllAssets
    /\ pc = [p \in Procs |-> "idle"]
    /\ arg = [p \in Procs |-> NoArg]
    /\ ret = NoRet
    /\ faults = 0
    /\ restarts = 0
    /\ used = {}
    /\ removed = FALSE
    /\ live = [i \in IDs |-> NilMedia]
    /\ gone = {}

\* NewFile is called on the storage.
Construct ==
    /\ built = "no"
    /\ Constructed
    /\ UNCHANGED <<r, mu, lockFile, files, pc, arg, ret, faults, restarts, used,
                   removed, live, gone>>

NextLoad == Construct

SpecLoad == InitLoad /\ [][NextLoad]_vars

(* ============================ properties ============================== *)

\* The entities successful Adds stored and no Remove has been called for.
LiveSet == {live[i] : i \in IDs} \ {NilMedia}

\* C1: a Get of an ID returns the entity a successful Add stored under it as long
\* as Remove has not been called for the ID, and returns not-found once a Remove
\* of the ID has returned, until an Add of the ID is under way again.
C1_GetReturnsAdded ==
    ret.op = "Get" =>
        /\ live[ret.id] # NilMedia => ret.val = live[ret.id]
        /\ ret.id \in gone => ret.val = NilMedia

\* A Get finds the entity an Add stored, after a Remove of another ID has
\* returned and while the other process waits in an Add of another ID.
C1_Witness ==
    /\ ret.op = "Get"
    /\ ret.val # NilMedia
    /\ ret.val = live[ret.id]
    /\ gone # {}
    /\ \E q \in Procs : pc[q] = "Add_called" /\ arg[q].id # ret.id

\* C2: an Add of an ID that is in the map returns the DuplicateID error with the
\* repository's id and the ID, and leaves the map and the index file as they were.
C2_DuplicateAddChangesNothing ==
    [][\A p \in Procs :
          (/\ pc[p] = "Add_locked"
           /\ ~itemsNil
           /\ arg[p].id \in DOMAIN items
           /\ pc'[p] # pc[p])
             => /\ ret'.proc = p
                /\ ret'.err = [kind |-> "DuplicateID", id |-> arg[p].id, repo |-> RepoID]
                /\ items' = items
                /\ itemsNil' = itemsNil
                /\ lockFile' = lockFile]_vars

\* An Add was refused for an ID whose stored entity is another one than the one
\* offered, and that entity is still stored.
C2_Witness ==
    /\ ret.op = "Add"
    /\ ret.err.kind = "DuplicateID"
    /\ ret.id \in DOMAIN items
    /\ items[ret.id] # ret.val
    /\ lockFile.exists

\* The lines of the index file as NewFile scans them, and the entity a line holds.
IndexLines == ScanLines(<<>>, lockFile.data)
RecordAt(k) == Unmarshal(IndexLines[k]).m
IsRecord(k) == IndexLines[k] # <<>> /\ ~Unmarshal(IndexLines[k]).err
IsCorrupt(k) == IndexLines[k] # <<>> /\ Unmarshal(IndexLines[k]).err

\* C3 as claimed: when three entities were added with success and the program
\* restarts, the new repository is constructed and holds exactly the three.
C3_ReloadYieldsAdded ==
    [][(restarts' = restarts + 1 /\ Cardinality(LiveSet) = 3)
          => (built' = "ok" /\ Values(items') = LiveSet)]_vars

\* C3 as amended: when the program restarts after Adds that succeeded, the new
\* repository is constructed and holds exactly the added entities (with the ones
\* the old repository had loaded itself) whose asset file exists on disk at that
\* moment.
C3_ReloadYieldsAddedOnDisk ==
    [][restarts' = restarts + 1
          => (built' = "ok" /\ Values(items') = {m \in LiveSet : m.path \in files})]_vars

\* After a restart the repository holds three entities: one with its asset
\* outside the root, one inside, one made by Create with metadata.
C3_Witness ==
    /\ restarts = 1
    /\ built = "ok"
    /\ Cardinality(DOMAIN items) = 3
    /\ \E i \in DOMAIN items : items[i].path = OutRoot(i)
    /\ \E i \in DOMAIN items : items[i].path = InRoot(i) /\ items[i].meta = "Anime"
    /\ \E i \in DOMAIN items : items[i].path = InRoot(i) /\ items[i].meta = "nil"

\* C4 as claimed: after every Add, Create or Remove that succeeded (no file
\* operation has failed, the program has not restarted) every line of the index
\* file is a record, the IDs of the records are the IDs of the map, and after a
\* Remove there is one line per entity.
C4_IndexMatchesItems ==
    (ret.op \in {"Add", "Create", "Remove"} /\ ret.err = NoErr /\ faults = 0 /\ restarts = 0)
        => /\ \A k \in 1..Len(IndexLines) : IsRecord(k)
           /\ {RecordAt(k).id : k \in 1..Len(IndexLines)} = DOMAIN items
           /\ ret.op = "Remove" => Len(IndexLines) = Cardinality(DOMAIN items)

\* No process is inside the critical section of Add.
NoAddInside == \A p \in Procs : pc[p] \notin {"Add_locked", "Add_make", "Add_put", "Add_inserted"}

\* C5: as long as nothing was removed, whenever no Add is inside its critical
\* section the map holds exactly the entities the returned Adds stored, and the
\* index file is exactly one whole record line per entity: whatever the order in
\* which the processes' Add calls got the lock.
C5_ParallelAddsAllStored ==
    (~removed /\ NoAddInside)
        => /\ Values(items) = LiveSet
           /\ Len(IndexLines) = Cardinality(LiveSet)
           /\ \A m \in LiveSet :
                 \E k \in 1..Len(IndexLines) : IndexLines[k] = IndexRecord(r.path, m)

\* Every Add has returned, the last one just now; the map holds an entity for
\* every ID and the index file one line for each, in the order the Adds got the
\* lock, here the higher ID first.
C5_Witness ==
    /\ ~removed
    /\ ret.op = "Add"
    /\ ret.err = NoErr
    /\ \A p \in Procs : pc[p] = "idle"
    /\ Cardinality(LiveSet) = NumFewIDs
    /\ Len(IndexLines) = NumFewIDs
    /\ IndexLines[1] = IndexRecord(r.path, live[NumFewIDs])

InWrite(p) ==
    pc[p] \in {"Add_locked", "Add_make", "Add_put", "Add_inserted",
               "Remove_locked", "Remove_deleted"}
InRead(p) == pc[p] \in {"Get_rlocked", "Items_rlocked", "Random_rlocked"}

\* C6: never are two processes inside Add or Remove, nor one inside Add or Remove
\* and another inside the read of Get, Items or Random; the map and the index
\* file change only in steps of a process inside Add or Remove; the map is read
\* only by a process inside its read.
C6_MutualExclusion ==
    /\ [](\A p, q \in Procs : (p # q /\ InWrite(p)) => ~(InWrite(q) \/ InRead(q)))
    /\ [][/\ (items' # items \/ itemsNil' # itemsNil \/ lockFile' # lockFile)
              => \E p \in Procs : InWrite(p) /\ pc'[p] # pc[p]
          /\ (ret' # ret /\ (ret'.op \in {"Get", "Items"} \/ (ret'.op = "Random" /\ ret'.n > 0)))
              => InRead(ret'.proc)]_vars

\* Two processes are inside their reads at once.
C6_Witness == \E p, q \in Procs : p # q /\ InRead(p) /\ InRead(q) /\ ~itemsNil

IsDistinct(v) == \A i, j \in 1..Len(v) : v[i] = v[j] => i = j
Elems(v) == {v[i] : i \in 1..Len(v)}

\* C10: Random(n) returns nothing for n <= 0; else min(n, |items|) entities,
\* pairwise distinct and all in the map, which is all of the map when n is not
\* below its size; and no step of Random changes the map, the index file or the
\* asset files.
C10_Random ==
    /\ [](ret.op = "Random" =>
            LET size == Cardinality(DOMAIN items) IN
            /\ ret.n <= 0 => ret.list = <<>>
            /\ ret.n > 0 =>
                 /\ Len(ret.list) = IF ret.n <= size THEN ret.n ELSE size
                 /\ IsDistinct(ret.list)
                 /\ Elems(ret.list) \subseteq Values(items)
            /\ ret.n >= size => Elems(ret.list) = Values(items))
    /\ [][((ret' # ret /\ ret'.op = "Random")
              \/ \E p \in Procs : pc'[p] # pc[p] /\ "Random_rlocked" \in {pc[p], pc'[p]})
            => (items' = items /\ itemsNil' = itemsNil /\ lockFile' = lockFile
                /\ files' = files)]_vars

\* Random(1) on a map of two entities returned the one with the higher ID.
C10_Witness ==
    /\ ret.op = "Random"
    /\ ret.n = 1
    /\ Cardinality(DOMAIN items) = 2
    /\ \E i \in DOMAIN items : ret.list = <<items[i]>> /\ \A j \in DOMAIN items : j <= i

\* The file a record refers to: its path, taken from the root when relative;
\* and the entity a repository holds for the record.
Target(m) == IF IsAbs(m.path) THEN m.path ELSE Join(RootPath, m.path)
Entity(m) == Media(m.id, m.format, Target(m), m.meta)
WellFormedIndex ==
    lockFile.exists /\ \A k \in 1..Len(IndexLines) : IndexLines[k] = <<>> \/ IsRecord(k)
OnDisk(k) == IsRecord(k) /\ Target(RecordAt(k)) \in files

C8_FirstOccurrenceKept ==
    (built # "no" /\ WellFormedIndex)
        => /\ built = "ok"
           /\ \A id \in DOMAIN items :
                 \E k \in 1..Len(IndexLines) :
                    /\ IsRecord(k) /\ RecordAt(k).id = id
                    /\ ~\E j \in 1..(k - 1) : IsRecord(j) /\ RecordAt(j).id = id
                    /\ items[id] = Entity(RecordAt(k))

\* C8 as amended: when every non-blank line of the index is a record,
\* construction succeeds, the repository holds an entity for exactly the IDs
\* that have a record with its file on disk, and the entity is the first such
\* record of the ID in the index.
C8_FirstOnDiskKept ==
    (built # "no" /\ WellFormedIndex)
        => /\ built = "ok"
           /\ DOMAIN items = {RecordAt(k).id : k \in {j \in 1..Len(IndexLines) : OnDisk(j)}}
           /\ \A id \in DOMAIN items :
                 \E k \in 1..Len(IndexLines) :
                    /\ OnDisk(k) /\ RecordAt(k).id = id
                    /\ ~\E j \in 1..(k - 1) : OnDisk(j) /\ RecordAt(j).id = id
                    /\ items[id] = Entity(RecordAt(k))

\* The index holds two different records of one ID, both with their file on
\* disk, and the repository holds the entity of the first.
C8_Witness ==
    /\ built = "ok"
    /\ \E j, k \in 1..Len(IndexLines) :
          /\ j < k
          /\ OnDisk(j) /\ OnDisk(k)
          /\ RecordAt(j).id = RecordAt(k).id
          /\ Entity(RecordAt(j)) # Entity(RecordAt(k))
          /\ items[RecordAt(j).id] = Entity(RecordAt(j))

\* C9: construction fails, and yields no repository, when the index file exists
\* and some non-blank line of it is not a record; it succeeds, with an empty
\* map, when there is no index file; and it succeeds when every non-blank line
\* is a record, blank lines or not.
C9_CorruptIndexFatal ==
    built # "no"
        => /\ (lockFile.exists /\ \E k \in 1..Len(IndexLines) : IsCorrupt(k))
                 => (built = "failed" /\ itemsNil /\ items = EmptyMap)
           /\ ~lockFile.exists => (built = "ok" /\ items = EmptyMap)
           /\ WellFormedIndex => built = "ok"

\* Construction failed on an index whose second line is not a record, between
\* two records with their files on disk.
C9_Witness ==
    /\ built = "failed"
    /\ Len(IndexLines) = 3
    /\ OnDisk(1)
    /\ IsCorrupt(2)
    /\ OnDisk(3)

\* C11: on a memory-backed repository there is never an index file and the
\* asset files on disk stay as they were; every Remove returns nil and every Add
\* returns nil or, for an ID the map holds, DuplicateID; every Create returns the
\* unsupported-operation error and no entity, and its step changes neither the
\* map nor the disk.
C11_MemoryNeverTouchesDisk ==
    /\ [](/\ lockFile = NoFile
          /\ files = {OutRoot(i) : i \in IDs}
          /\ ret.op = "Remove" => ret.err = NoErr
          /\ ret.op = "Add" => ret.err.kind \in {"nil", "DuplicateID"}
          /\ ret.op = "Create" => (ret.err.kind = "Unsupported" /\ ret.val = NilMedia))
    /\ [][(ret' # ret /\ ret'.op = "Create")
            => (items' = items /\ itemsNil' = itemsNil /\ used' = used)]_vars

\* Create has just been refused on a memory-backed repository that holds an
\* entity, after an Add and a Remove of another ID.
C11_Witness ==
    /\ r.lockPath = ""
    /\ ret.op = "Create"
    /\ ret.err = ErrUnsupported
    /\ removed
    /\ gone # {}
    /\ \E i \in DOMAIN items : items[i] = live[i] /\ i \notin gone

\* An error of the index file's open, write or close.
IndexFailed(err) == err.kind \in {"open index file", "write index item", "close index file"}

\* The map holds an entity under the ID that no Add has returned nil for and no
\* NewFile has loaded: the entity of an Add whose append failed.
Unsaved(id) == id \in DOMAIN items /\ live[id] = NilMedia

\* C12 as claimed: when Add(m) has returned an error of the index file, Get of
\* the ID reads m, Items holds m, and no line of the index file is the record
\* of m.
C12_FailedAddLeavesNoRecord ==
    (ret.op = "Add" /\ IndexFailed(ret.err))
        => /\ Get(ret.id) = ret.val
           /\ \A v \in Items : ret.val \in Elems(v)
           /\ \A k \in 1..Len(IndexLines) : IndexLines[k] # IndexRecord(r.path, ret.val)

\* C12 as amended: when Add(m) has returned an error of the index file, Get of
\* the ID reads m and Items holds m; an Add of an ID whose entity is in the map
\* unsaved returns DuplicateID; and the failed Add has left the index file as it
\* was when the open failed, has appended only a part of the line of m when
\* the write failed, and has appended the whole line when the close failed.
C12_FailedAddKeepsEntity ==
    /\ []((ret.op = "Add" /\ IndexFailed(ret.err))
            => /\ Get(ret.id) = ret.val
               /\ \A v \in Items : ret.val \in Elems(v))
    /\ [][\A p \in Procs :
            /\ (pc[p] = "Add_locked" /\ pc'[p] # pc[p] /\ Unsaved(arg[p].id))
                 => /\ ret'.err = ErrDuplicateID(arg[p].id, RepoID)
                    /\ items' = items
            /\ (pc[p] = "Add_inserted" /\ pc'[p] # pc[p] /\ IndexFailed(ret'.err))
                 => LET line == IndexRecord(r.path, arg[p].m) \o <<NL>> IN
                    /\ items' = items
                    /\ ret'.err.kind = "open index file" => lockFile' = lockFile
                    /\ ret'.err.kind = "write index item"
                         => \E k \in 0..(Len(line) - 1) :
                               lockFile'.data = lockFile.data \o SubSeq(line, 1, k)
                    /\ ret'.err.kind = "close index file"
                         => lockFile'.data = lockFile.data \o line]_vars

\* A second Add of an ID has returned DuplicateID: the first one had failed to
\* write its record, of which the index file holds a part and no whole line.
C12_Witness ==
    /\ ret.op = "Add"
    /\ ret.err.kind = "DuplicateID"
    /\ Unsaved(ret.id)
    /\ faults = 1
    /\ lockFile.exists
    /\ lockFile.data # <<>>
    /\ \A k \in 1..Len(IndexLines) : IsCorrupt(k)

\* C13: Create on a file-backed repository returns no entity with the error of
\* the asset file's open (then there is no asset file) or write; with an error
\* of the Add it calls it returns the entity it built, which is in the map and
\* whose asset file is on disk; without an error it returns the entity as well.
C13_CreateReturnsEntity ==
    ret.op = "Create"
        => /\ ret.err.kind = "open file"
                => (ret.val = NilMedia /\ InRoot(ret.id) \notin files)
           /\ ret.err.kind = "write file" => ret.val = NilMedia
           /\ ret.err.kind \in {"open file", "write file"} => ret.id \notin DOMAIN items
           /\ ret.err.kind \notin {"open file", "write file"}
                => /\ ret.val # NilMedia
                   /\ ret.val.id = ret.id
                   /\ ret.val.path = InRoot(ret.id)
                   /\ ret.val.path \in files
                   /\ Get(ret.id) = ret.val
           /\ ret.err.kind \in {"nil", "open file", "write file", "open index file",
                                "write index item", "close index file"}

\* Create has returned an entity with the error of the index file's open: the
\* asset file is on disk and the index file holds no record of the entity.
C13_Witness ==
    /\ ret.op = "Create"
    /\ ret.err.kind = "open index file"
    /\ ret.val # NilMedia
    /\ ret.val.meta = "Anime"
    /\ ret.val.path \in files
    /\ \A k \in 1..Len(IndexLines) : IndexLines[k] # IndexRecord(r.path, ret.val)

\* C14 as claimed: a Create in whose returning step a file operation fails, the
\* close of the asset file included, returns an error.
C14_CreateReportsCloseFailure ==
    [][(ret' # ret /\ ret'.op = "Create" /\ faults' > faults)
          => ret'.err # NoErr]_vars

\* C15: the entity Create returns has the format Image for the MIME types
\* image/jpeg and image/png, AnimatedImage for image/vnd.mozilla.apng, image/gif
\* and image/webp, Unknown for any other; no step changes the format of an
\* entity the map holds, and Get reads an entity with the format it was stored
\* with.
C15_FormatClassification ==
    /\ []((ret.op = "Create" /\ ret.val # NilMedia)
            => /\ ret.mime = "image/jpeg" => ret.val.format = "Image"
               /\ ret.mime = "image/png" => ret.val.format = "Image"
               /\ ret.mime = "image/vnd.mozilla.apng" => ret.val.format = "AnimatedImage"
               /\ ret.mime = "image/gif" => ret.val.format = "AnimatedImage"
               /\ ret.mime = "image/webp" => ret.val.format = "AnimatedImage"
               /\ ret.mime \notin {"image/jpeg", "image/png", "image/vnd.mozilla.apng",
                                   "image/gif", "image/webp"}
                    => ret.val.format = "Unknown")
    /\ []((ret.op = "Get" /\ live[ret.id] # NilMedia)
            => ret.val.format = live[ret.id].format)
    /\ [][\A id \in DOMAIN items \cap DOMAIN items' :
            items'[id].format = items[id].format]_vars

\* Create has returned an entity of format Unknown for content that is no
\* image, after another entity was created and one was removed.
C15_Witness ==
    /\ ret.op = "Create"
    /\ ret.err = NoErr
    /\ ret.mime = "text/plain"
    /\ ret.val.format = "Unknown"
    /\ Get(ret.id) = ret.val
    /\ removed
    /\ \E i \in DOMAIN items : items[i].format = "AnimatedImage"

\* Two index files hold the same lines, each as often, in whatever order.
Count(lines, l) == Cardinality({i \in 1..Len(lines) : lines[i] = l})
SameLines(a, b) ==
    LET la == ScanLines(<<>>, a)
        lb == ScanLines(<<>>, b)
    IN  /\ Len(la) = Len(lb)
        /\ \A l \in Elems(la) \cup Elems(lb) : Count(la, l) = Count(lb, l)

\* The map without an ID, and the index file a Remove leaves that enumerates
\* that map in the given order.
Without(map, id) == [i \in DOMAIN map \ {id} |-> map[i]]
Rewritten(file, order) == save(r, file, order, "ok", 1, 0).file

\* C16: a Remove returns nil and leaves no entity under its ID; for an ID the
\* map does not hold its delete changes nothing; no step of Remove changes the
\* asset files; and when a Remove has returned, another Remove of its ID would
\* leave the map as it is and an index file with the lines it has now, whatever
\* the order the map is enumerated in.
C16_RemoveIdempotent ==
    /\ [](ret.op = "Remove" => (ret.err = NoErr /\ ret.id \notin DOMAIN items))
    /\ [](ret.op = "Remove"
            => /\ Without(items, ret.id) = items
               /\ \A order \in Orderings(Values(items)) :
                     SameLines(Rewritten(lockFile, order).data, lockFile.data))
    /\ [][\A p \in Procs :
            /\ (pc[p] = "Remove_locked" /\ pc'[p] # pc[p])
                 => /\ items' = Without(items, arg[p].id)
                    /\ arg[p].id \notin DOMAIN items => items' = items
                    /\ itemsNil' = itemsNil
            /\ ("Remove_locked" \in {pc[p], pc'[p]} /\ pc'[p] # pc[p]) => files' = files
            /\ (pc[p] = "Remove_deleted" /\ pc'[p] # pc[p])
                 => (files' = files /\ items' = items)]_vars

\* A Remove of an entity made by Create has returned: its asset file is on disk,
\* and the map holds another entity, with its record in the index file.
C16_Witness ==
    /\ ret.op = "Remove"
    /\ ret.err = NoErr
    /\ ret.id \in used
    /\ InRoot(ret.id) \in files
    /\ \E i \in DOMAIN items :
          \E k \in 1..Len(IndexLines) : IndexLines[k] = IndexRecord(r.path, items[i])

\* C17 as claimed: when a Remove has returned nil (no file operation has failed
\* so far, the program has not restarted), NewFile on the root and the index
\* file as they are succeeds, and the repository it constructs holds nothing
\* under the removed ID and no entity the map does not hold.
C17_RemovalSurvivesRestart ==
    (ret.op = "Remove" /\ ret.err = NoErr /\ faults = 0 /\ restarts = 0)
        => LET fresh == NewFile(lockFile, files) IN
           /\ ~fresh.err
           /\ ret.id \notin DOMAIN fresh.items
           /\ Values(fresh.items) \subseteq Values(items)

\* C18: the steps of Create that open and write the asset file leave the lock
\* alone; the index file changes only in a step of the process that holds the
\* lock, and an Add's step appends the line of its own entity to it; and the
\* entity of a Create is in the map only when its asset file is written: never
\* while its process is before the Add, and then with the file on disk.
C18_CreateWritesUnlocked ==
    /\ [](\A p \in Procs :
            /\ pc[p] \in {"Create_opened", "Create_add"}
                 => (mu.writer # p /\ Get(arg[p].id) = NilMedia)
            /\ (arg[p].via = "Create" /\ arg[p].id \in DOMAIN items)
                 => (pc[p] = "Add_inserted" /\ arg[p].m.path \in files))
    /\ [][/\ \A p \in Procs :
               (pc'[p] # pc[p] /\ pc'[p] \in {"Create_opened", "Create_add"}) => mu' = mu
          /\ lockFile' # lockFile
               => \E p \in Procs :
                     /\ mu.writer = p
                     /\ pc'[p] # pc[p]
                     /\ pc[p] = "Add_inserted"
                          => lockFile'.data = lockFile.data
                                \o IndexRecord(r.path, arg[p].m) \o <<NL>>]_vars

\* Two processes are in Create at once, each with its asset file opened and the
\* write to come.
C18_Witness ==
    \E p, q \in Procs :
       /\ p # q
       /\ pc[p] = "Create_opened"
       /\ pc[q] = "Create_opened"
       /\ arg[p].m.path \in files
       /\ arg[q].m.path \in files
       /\ mu = Unlocked

\* C19 as claimed: whenever an entity comes into the map, put there by Add (for
\* a caller or for Create) or loaded by NewFile, the file it refers to is on
\* disk in that moment.
C19_FileExistedWhenInserted ==
    [][\A id \in DOMAIN items' :
          (id \notin DOMAIN items \/ items'[id] # items[id])
             => items'[id].path \in files]_vars

\* C20 as claimed: when an Add, Create or Remove has returned nil (one process,
\* no file operation has failed so far, the program has not restarted), every
\* line of the index file is blank or a record, and NewFile on the root and the
\* index file as they are succeeds.
C20_RestartNeverFails ==
    (ret.op \in {"Add", "Create", "Remove"} /\ ret.err = NoErr /\ faults = 0 /\ restarts = 0)
        => /\ \A k \in 1..Len(IndexLines) : ~IsCorrupt(k)
           /\ ~NewFile(lockFile, files).err

====
